---- MODULE Spec2Model ----
\* Model of the food store of the Food Tracker app (frontend/src/store/foodStore.ts,
\* kept here as src/unnamed/part_001): the in-memory view (entries, summary),
\* the local cache on its two backends (localStorage on web, the SQLite table
\* food_entries_cache on mobile) and the remote API it talks to.
\*
\* Every store action is one step of the model: the store is used from one
\* JavaScript thread and each action below is the whole handler, run to
\* completion, with the outcome of each remote request it makes (success or
\* failure) chosen by the environment (Spec). SpecOverlap splits the date
\* change and its two fetches at their awaits, so that requests overlap;
\* SpecPair gives the same calls to a store on each backend; SpecRetry keeps
\* syncOfflineEntries running while rows are pending; SpecTasks splits
\* fetchEntries, addEntry and syncOfflineEntries at their awaits.
\* SpecSession is the session kept by the auth store, the token storage and
\* the interceptors of the API client.
\*
\* The two backends are the ones the source selects between: localStorage
\* when Platform.OS is 'web', the opened SQLite database otherwise. The local
\* store itself does not fail, only remote requests do; SpecStoreFails adds
\* the failure of the cache write of addEntry.
\*
\* Identifiers are scaled: the source tells temporary identifiers (Date.now(),
\* about 1.7 * 10^12) from server identifiers (SERIAL, 1, 2, 3, ...) by
\* comparing with 1000000000000; the model keeps the comparison and scales the
\* threshold and the clock epoch so that the numbers fit a machine integer.
EXTENDS Integers, Sequences, FiniteSets, TLC

VARIABLES isWeb, localStorage, db, entries, summary, isLoading, selectedDate,
          remote, remoteSeq, clock, last, nOps, inflight, pair,
          auth, auth_token, secureStore

\* the auth store, the stored token and the storage module behind getStorage()
authVars == <<auth, auth_token, secureStore>>

vars == <<isWeb, localStorage, db, entries, summary, isLoading, selectedDate,
          remote, remoteSeq, clock, last, nOps, inflight, pair,
          auth, auth_token, secureStore>>

----------------------------------------------------------------------------
\* Bounds of the model.

\* number of store operations in one run
MaxOps == 3

\* Program constants.

\* `e.id < 1000000000000`, scaled
TempIdThreshold == 100
\* Date.now() at the start of the run (about 1.7 * 10^12), scaled the same way
Epoch == 170
calorie_goal == 2000
protein_goal == 150
carb_goal == 200
fat_goal == 65

Dates == {"2024-05-01", "2024-05-02"}
Foods == {"apple", "rice"}

\* The macro values a food is logged with (calories 300 and 250 as in the
\* fallback-summation example).
Macros(f) ==
  IF f = "apple" THEN [calories |-> 300, protein |-> 1, carbs |-> 30, fats |-> 0]
                 ELSE [calories |-> 250, protein |-> 5, carbs |-> 50, fats |-> 1]

\* Omit<FoodEntry, 'id' | 'created_at'>: what the UI passes to addEntry.
\* serving_size and image_url are carried along unread and are left out.
Draft(f, d) ==
  [food_name |-> f, calories |-> Macros(f).calories, protein |-> Macros(f).protein,
   carbs |-> Macros(f).carbs, fats |-> Macros(f).fats, entry_date |-> d]

Drafts == {Draft(f, d) : f \in Foods, d \in Dates}

\* interface FoodEntry
FoodEntry(id, draft, created) ==
  [id |-> id, food_name |-> draft.food_name, calories |-> draft.calories,
   protein |-> draft.protein, carbs |-> draft.carbs, fats |-> draft.fats,
   entry_date |-> draft.entry_date, created_at |-> created]

\* The body of the create request: the entry's content without id and created_at.
PostBody(e) ==
  [food_name |-> e.food_name, calories |-> e.calories, protein |-> e.protein,
   carbs |-> e.carbs, fats |-> e.fats, entry_date |-> e.entry_date]

\* A row of food_entries_cache: the entry's columns and the synced column.
Row(e, s) ==
  [id |-> e.id, food_name |-> e.food_name, calories |-> e.calories,
   protein |-> e.protein, carbs |-> e.carbs, fats |-> e.fats,
   entry_date |-> e.entry_date, created_at |-> e.created_at, synced |-> s]

\* The entry's fields of a row or entry, without the synced column.
Fields(r) == FoodEntry(r.id, r, r.created_at)

\* Date.now() at the clock reading t
DateNow(t) == Epoch + t

Max(a, b) == IF a >= b THEN a ELSE b

Range(s) == {s[i] : i \in 1..Len(s)}

----------------------------------------------------------------------------
\* Sequences.

RECURSIVE SelectSeqBy(_, _)
\* Array.prototype.filter with the predicate given as the set of kept values
SelectSeqBy(s, keep) ==
  IF s = <<>> THEN <<>>
  ELSE IF Head(s) \in keep THEN <<Head(s)>> \o SelectSeqBy(Tail(s), keep)
       ELSE SelectSeqBy(Tail(s), keep)

\* All orderings of the finite set S as sequences.
Perms(S) ==
  {s \in [1..Cardinality(S) -> S] : \A i, j \in 1..Cardinality(S) : i # j => s[i] # s[j]}

RECURSIVE InsertDesc(_, _)
\* insert e into s (sorted by created_at, most recent first) after the
\* elements that compare equal: a stable insertion
InsertDesc(s, e) ==
  IF s = <<>> THEN <<e>>
  ELSE IF Head(s).created_at >= e.created_at THEN <<Head(s)>> \o InsertDesc(Tail(s), e)
       ELSE <<e>> \o s

RECURSIVE SortDesc(_)
\* Array.prototype.sort((a, b) => time(b.created_at) - time(a.created_at)): stable
SortDesc(s) ==
  IF s = <<>> THEN <<>>
  ELSE InsertDesc(SortDesc(SubSeq(s, 1, Len(s) - 1)), s[Len(s)])

----------------------------------------------------------------------------
\* The local cache. A store is the pair of both backends' contents; only the
\* one selected by isWeb is ever read or written.

Store(ls, d) == [ls |-> ls, db |-> d]

\* entries.findIndex((e) => e.id === id), 1-based; 0 when there is none
FindIndex(ls, id) ==
  IF \E i \in 1..Len(ls) : ls[i].id = id
  THEN CHOOSE i \in 1..Len(ls) : ls[i].id = id /\ \A j \in 1..(i - 1) : ls[j].id # id
  ELSE 0

\* cacheEntryLocally with the mobile statement writing synced = 0, as the
\* INSERT of cacheEntry does
cacheEntryLocallyUnsynced(st, entry) ==
  IF isWeb
  THEN LET index == FindIndex(st.ls, entry.id)
       IN [st EXCEPT !.ls = IF index > 0 THEN [@ EXCEPT ![index] = Fields(entry)]
                                         ELSE Append(@, Fields(entry))]
  ELSE [st EXCEPT !.db = [rows |-> {r \in @.rows : r.id # entry.id} \cup {Row(entry, 0)},
                          seq |-> Max(@.seq, entry.id)]]

\* cacheEntryLocally that never looks for a row with the same id: a plain
\* push on web, a plain INSERT on mobile
cacheEntryLocallyPush(st, entry) ==
  IF isWeb
  THEN [st EXCEPT !.ls = Append(@, Fields(entry))]
  ELSE [st EXCEPT !.db = [rows |-> @.rows \cup {Row(entry, 1)},
                          seq |-> Max(@.seq, entry.id)]]

\* cacheEntryLocally(entry): upsert of a server entry.
\* web: replace the first element with that id, else push.
\* mobile: INSERT OR REPLACE ... VALUES (id, ..., 1).
cacheEntryLocally(st, entry) ==
  IF isWeb
  THEN LET index == FindIndex(st.ls, entry.id)
       IN [st EXCEPT !.ls = IF index > 0 THEN [@ EXCEPT ![index] = Fields(entry)]
                                         ELSE Append(@, Fields(entry))]
  ELSE [st EXCEPT !.db = [rows |-> {r \in @.rows : r.id # entry.id} \cup {Row(entry, 1)},
                          seq |-> Max(@.seq, entry.id)]]

RECURSIVE CacheAll(_, _)
\* for (const entry of response.data) await cacheEntryLocally(entry)
CacheAll(st, list) ==
  IF list = <<>> THEN st
  ELSE CacheAll(cacheEntryLocally(st, Head(list)), Tail(list))

\* cacheEntry with the mobile statement writing synced = 1, as the INSERT OR
\* REPLACE of cacheEntryLocally does
cacheEntrySynced(st, draft, now) ==
  IF isWeb
  THEN [st EXCEPT !.ls = Append(@, FoodEntry(DateNow(now), draft, DateNow(now)))]
  ELSE [st EXCEPT !.db = [rows |-> @.rows \cup {Row(FoodEntry(@.seq + 1, draft, DateNow(now)), 1)},
                          seq |-> @.seq + 1]]

\* cacheEntry(entry): store a draft that could not be sent.
\* web: push {id: Date.now(), ...entry, created_at: now}.
\* mobile: INSERT without id (AUTOINCREMENT assigns it) with synced = 0.
cacheEntry(st, draft, now) ==
  IF isWeb
  THEN [st EXCEPT !.ls = Append(@, FoodEntry(DateNow(now), draft, DateNow(now)))]
  ELSE [st EXCEPT !.db = [rows |-> @.rows \cup {Row(FoodEntry(@.seq + 1, draft, DateNow(now)), 0)},
                          seq |-> @.seq + 1]]

\* getCachedEntries without the filter on entry_date (no WHERE clause)
getCachedEntriesAnyDate(st, date) ==
  IF isWeb
  THEN {SortDesc(st.ls)}
  ELSE {s \in Perms(st.db.rows) :
          \A i, j \in 1..Len(s) : i < j => s[i].created_at >= s[j].created_at}

\* getCachedEntries that orders by created_at ascending, the oldest first
getCachedEntriesAscending(st, date) ==
  IF isWeb
  THEN LET s == SortDesc(SelectSeqBy(st.ls, {e \in Range(st.ls) : e.entry_date = date}))
       IN {[i \in 1..Len(s) |-> s[Len(s) + 1 - i]]}
  ELSE LET S == {r \in st.db.rows : r.entry_date = date}
       IN {s \in Perms(S) : \A i, j \in 1..Len(s) : i < j => s[i].created_at <= s[j].created_at}

\* getCachedEntries(date): the set of sequences the call can return.
\* web: filter by date, then a stable sort, most recent first: one sequence.
\* mobile: SELECT * ... WHERE entry_date = ? ORDER BY created_at DESC; rows
\* with equal created_at come in an order SQL leaves open.
getCachedEntries(st, date) ==
  IF isWeb
  THEN {SortDesc(SelectSeqBy(st.ls, {e \in Range(st.ls) : e.entry_date = date}))}
  ELSE LET S == {r \in st.db.rows : r.entry_date = date}
       IN {s \in Perms(S) : \A i, j \in 1..Len(s) : i < j => s[i].created_at >= s[j].created_at}

RECURSIVE SeqById(_)
\* the rows of S in rowid order
SeqById(S) ==
  IF S = {} THEN <<>>
  ELSE LET m == CHOOSE r \in S : \A q \in S : r.id <= q.id
       IN <<m>> \o SeqById(S \ {m})

\* The entries syncOfflineEntries selects for resubmission.
\* web: allEntries.filter((e) => !e.id || e.id < 1000000000000)
\* mobile: SELECT * FROM food_entries_cache WHERE synced = 0
unsynced(st) ==
  IF isWeb
  THEN SelectSeqBy(st.ls, {e \in Range(st.ls) : e.id < TempIdThreshold})
  ELSE SeqById({r \in st.db.rows : r.synced = 0})

----------------------------------------------------------------------------
\* The remote API (the FastAPI backend over its food_entries table).

\* The goals the user has set on the server (POST /macro-goals).
RemoteGoals == [calorie_goal |-> 1800, protein_goal |-> 120, carb_goal |-> 180, fat_goal |-> 60]

\* GET /food/entries?date=: the entries of that date, most recent first
RemoteList(rem, date) == SortDesc(SeqById({e \in rem : e.entry_date = date}))

\* POST /food/entries at the time `now`: the created entry, with the next
\* SERIAL id and created_at DEFAULT NOW()
RemoteCreate(seq, body, now) == FoodEntry(seq + 1, body, DateNow(now))

\* The server's NOW() has microsecond resolution: a request served after an
\* earlier clock reading sees a later time.
ServerTime(t) == t + 1

RECURSIVE Totals(_)
\* entries.reduce((acc, entry) => ({calories: acc.calories + entry.calories, ...}), zeros)
Totals(s) ==
  IF s = <<>> THEN [calories |-> 0, protein |-> 0, carbs |-> 0, fats |-> 0]
  ELSE LET acc == Totals(SubSeq(s, 1, Len(s) - 1))
           entry == s[Len(s)]
       IN [calories |-> acc.calories + entry.calories, protein |-> acc.protein + entry.protein,
           carbs |-> acc.carbs + entry.carbs, fats |-> acc.fats + entry.fats]

\* interface MacroSummary
MacroSummary(date, totals, goals) ==
  [date |-> date, calories |-> totals.calories, protein |-> totals.protein,
   carbs |-> totals.carbs, fats |-> totals.fats,
   calorie_goal |-> goals.calorie_goal, protein_goal |-> goals.protein_goal,
   carb_goal |-> goals.carb_goal, fat_goal |-> goals.fat_goal]

\* GET /dashboard/summary?date=
RemoteSummary(rem, date) == MacroSummary(date, Totals(RemoteList(rem, date)), RemoteGoals)

NoSummary == [date |-> "null"]
NoDate == "undefined"

----------------------------------------------------------------------------
\* The store's handlers as functions of the state they read. `ok` is the
\* outcome of the handler's remote request.

\* const targetDate = date || get().selectedDate
targetDate(date) == IF date = NoDate THEN selectedDate ELSE date

\* fetchSummary(date) with the in-memory entries `view`: the new summary.
\* It catches every failure of its request and never rejects.
fetchSummary(view, rem, date, ok) ==
  IF ok THEN RemoteSummary(rem, date)
  ELSE MacroSummary(date, Totals(view),
                    [calorie_goal |-> calorie_goal, protein_goal |-> protein_goal,
                     carb_goal |-> carb_goal, fat_goal |-> fat_goal])

\* fetchEntries(date): the set of possible outcomes [entries, st].
\* success: the view is response.data and each entry is cached;
\* failure: the view is getCachedEntries(date) and nothing is raised.
fetchEntries(st, rem, date, ok) ==
  IF ok THEN {[entries |-> RemoteList(rem, date), st |-> CacheAll(st, RemoteList(rem, date))]}
  ELSE {[entries |-> cached, st |-> st] : cached \in getCachedEntries(st, date)}

RECURSIVE SyncLoop(_, _, _, _)
\* for (const entry of unsynced) { try { post; replace or mark } catch { log } }
\* acc = [st, remote, remoteSeq, posts, clock]; the requests at the positions
\* in `fail` are the ones that fail.
SyncLoop(acc, list, i, fail) ==
  IF i > Len(list) THEN acc
  ELSE LET entry == list[i]
           sent == [acc EXCEPT !.posts = Append(@, PostBody(entry))]
       IN IF i \in fail THEN SyncLoop(sent, list, i + 1, fail)
          ELSE LET data == RemoteCreate(acc.remoteSeq, PostBody(entry), ServerTime(acc.clock))
                   index == FindIndex(acc.st.ls, entry.id)
                   ls2 == IF index > 0 THEN [acc.st.ls EXCEPT ![index] = data] ELSE acc.st.ls
                   db2 == [acc.st.db EXCEPT !.rows =
                             {IF r.id = entry.id THEN [r EXCEPT !.synced = 1] ELSE r : r \in @}]
               IN SyncLoop([sent EXCEPT !.remote = @ \cup {data},
                                        !.remoteSeq = @ + 1,
                                        !.clock = ServerTime(@),
                                        !.st = IF isWeb THEN Store(ls2, acc.st.db)
                                                        ELSE Store(acc.st.ls, db2)],
                           list, i + 1, fail)

----------------------------------------------------------------------------
\* The record of the operation that ran last: its arguments, the requests it
\* sent to the remote and how it ended. `before` is the name and the outcome
\* of the operation that ran before it, kept when that was an addEntry;
\* `summaries` is the number of fetchSummary calls the operation made;
\* `refreshed` tells that the list request of the refresh that ends
\* syncOfflineEntries succeeded; `requests` are the paths of the requests an
\* operation of the auth store sent.

NoDraft == [food_name |-> "none"]
NoEntry == [id |-> 0]

NoOp ==
  [op |-> "init", date |-> NoDate, draft |-> NoDraft, id |-> 0, ok |-> TRUE,
   raised |-> FALSE, posts |-> <<>>, deletes |-> <<>>, sel |-> <<>>, fail |-> {},
   data |-> NoEntry, summaries |-> 0, refreshed |-> FALSE, requests |-> <<>>,
   before |-> [op |-> "none", ok |-> TRUE, data |-> NoEntry, draft |-> NoDraft]]

Op(name) ==
  [NoOp EXCEPT !.op = name, !.before = IF last.op = "addEntry"
                                         THEN [op |-> last.op, ok |-> last.ok, data |-> last.data,
                                               draft |-> last.draft]
                                         ELSE NoOp.before]

St == Store(localStorage, db)

\* the store's new cache contents
SetStore(st) == localStorage' = st.ls /\ db' = st.db

\* The state of one run of the store apart from its backend flag. The backend
\* comparison runs the same calls on both backends: while one run is live in
\* the variables, the other is held as such a record.
Context ==
  [localStorage |-> localStorage, db |-> db, entries |-> entries, summary |-> summary,
   isLoading |-> isLoading, selectedDate |-> selectedDate, remote |-> remote,
   remoteSeq |-> remoteSeq, clock |-> clock, last |-> last, nOps |-> nOps,
   inflight |-> inflight]

\* the context of a store that has just been created
InitContext ==
  [localStorage |-> <<>>, db |-> [rows |-> {}, seq |-> 0], entries |-> <<>>,
   summary |-> NoSummary, isLoading |-> FALSE, selectedDate |-> "2024-05-01",
   remote |-> {}, remoteSeq |-> 0, clock |-> 0, last |-> NoOp, nOps |-> 0,
   inflight |-> {}]

NoInput == [op |-> "none"]
NoObs == [requests |-> "none"]

\* pair.inp: the call both runs make next, with its remote responses;
\* pair.twin: the context of the run that is not live;
\* pair.obs: what was observed of that run after its last call
NoPair == [inp |-> NoInput, twin |-> InitContext, obs |-> NoObs]

----------------------------------------------------------------------------
\* The session: the auth store (store/authStore.ts), the token item of the
\* storage behind getStorage() (utils/storage.ts) and the response
\* interceptor of the API client (config/api.ts).

Users == {"ann", "bob"}
NoUser == "null"
\* the access_token the remote issues to a user
TokenOf(u) == [sub |-> u]

\* getItem returns null: nothing is stored
NoToken == TokenOf(NoUser)

\* The functions a build of expo-secure-store exports: the asynchronous ones,
\* and in the later releases the synchronous getItem and setItem as well.
\* No release exports a function named deleteItem.
SecureStoreAsync == {"getItemAsync", "setItemAsync", "deleteItemAsync"}
SecureStoreSync == {"getItem", "setItem"}

\* create<AuthState>: user null, isAuthenticated false, isLoading true
InitAuth == [user |-> NoUser, isAuthenticated |-> FALSE, isLoading |-> TRUE]

\* the session of a store that was just created, with nothing stored
InitAuthStore ==
  /\ auth = InitAuth
  /\ auth_token = NoToken
  /\ secureStore = SecureStoreAsync \cup SecureStoreSync

----------------------------------------------------------------------------
\* the food store after construction, on either backend
InitFoodStore ==
  /\ isWeb \in BOOLEAN
  /\ localStorage = <<>>
  /\ db = [rows |-> {}, seq |-> 0]
  /\ entries = <<>>
  /\ summary = NoSummary
  /\ isLoading = FALSE
  /\ selectedDate = "2024-05-01"
  /\ remote = {}
  /\ remoteSeq = 0
  /\ clock = 0
  /\ last = NoOp
  /\ nOps = 0
  /\ inflight = {}
  /\ pair = NoPair

Init == InitFoodStore /\ InitAuthStore

\* The readings of Date.now() a call can see: the last time read, or a later one.
Readings == {clock, clock + 1}

FetchEntries(date, ok) ==
  /\ nOps < MaxOps
  /\ \E r \in fetchEntries(St, remote, targetDate(date), ok) :
       /\ entries' = r.entries
       /\ SetStore(r.st)
  /\ isLoading' = FALSE
  /\ last' = [Op("fetchEntries") EXCEPT !.date = targetDate(date), !.ok = ok]
  /\ nOps' = nOps + 1
  /\ UNCHANGED <<authVars, inflight, pair, isWeb, summary, selectedDate, remote, remoteSeq, clock>>

FetchSummary(date, ok) ==
  /\ nOps < MaxOps
  /\ summary' = fetchSummary(entries, remote, targetDate(date), ok)
  /\ last' = [Op("fetchSummary") EXCEPT !.date = targetDate(date), !.ok = ok,
                                          !.summaries = 1]
  /\ nOps' = nOps + 1
  /\ UNCHANGED <<authVars, inflight, pair, isWeb, localStorage, db, entries, isLoading, selectedDate,
                 remote, remoteSeq, clock>>

\* addEntry(entry): post; on success prepend to the view, refresh the summary
\* and cache the new entry; on failure cacheEntry(entry) and rethrow.
AddEntry(draft, ok, sok, now) ==
  /\ nOps < MaxOps
  /\ IF ok
     THEN LET newEntry == RemoteCreate(remoteSeq, draft, ServerTime(clock))
          IN /\ now = clock
             /\ clock' = ServerTime(clock)
             /\ remote' = remote \cup {newEntry}
             /\ remoteSeq' = remoteSeq + 1
             /\ entries' = <<newEntry>> \o entries
             /\ summary' = fetchSummary(entries', remote', selectedDate, sok)
             /\ SetStore(cacheEntryLocally(St, newEntry))
             /\ last' = [Op("addEntry") EXCEPT !.draft = draft, !.posts = <<draft>>,
                                               !.data = newEntry, !.summaries = 1]
     ELSE /\ sok
          /\ clock' = now
          /\ SetStore(cacheEntry(St, draft, now))
          /\ last' = [Op("addEntry") EXCEPT !.draft = draft, !.posts = <<draft>>,
                                            !.ok = FALSE, !.raised = TRUE]
          /\ UNCHANGED <<remote, remoteSeq, entries, summary>>
  /\ nOps' = nOps + 1
  /\ UNCHANGED <<authVars, inflight, pair, isWeb, isLoading, selectedDate>>

\* deleteEntry that drops the entry from the view before the request and does
\* not put it back when the request fails
DeleteEntryOptimistic(id, ok, sok) ==
  /\ nOps < MaxOps
  /\ entries' = SelectSeqBy(entries, {e \in Range(entries) : e.id # id})
  /\ IF ok
     THEN /\ remote' = {e \in remote : e.id # id}
          /\ summary' = fetchSummary(entries', remote', selectedDate, sok)
          /\ last' = [Op("deleteEntry") EXCEPT !.id = id, !.deletes = <<id>>,
                                               !.summaries = 1]
     ELSE /\ sok
          /\ last' = [Op("deleteEntry") EXCEPT !.id = id, !.deletes = <<id>>,
                                               !.ok = FALSE, !.raised = TRUE]
          /\ UNCHANGED <<remote, summary>>
  /\ nOps' = nOps + 1
  /\ UNCHANGED <<authVars, inflight, pair, isWeb, localStorage, db, isLoading, selectedDate, remoteSeq, clock>>

\* deleteEntry(id): delete on the remote; on success drop the entry from the
\* view and refresh the summary; on failure rethrow.
DeleteEntry(id, ok, sok) ==
  /\ nOps < MaxOps
  /\ IF ok
     THEN /\ remote' = {e \in remote : e.id # id}
          /\ entries' = SelectSeqBy(entries, {e \in Range(entries) : e.id # id})
          /\ summary' = fetchSummary(entries', remote', selectedDate, sok)
          /\ last' = [Op("deleteEntry") EXCEPT !.id = id, !.deletes = <<id>>,
                                               !.summaries = 1]
     ELSE /\ sok
          /\ last' = [Op("deleteEntry") EXCEPT !.id = id, !.deletes = <<id>>,
                                               !.ok = FALSE, !.raised = TRUE]
          /\ UNCHANGED <<remote, entries, summary>>
  /\ nOps' = nOps + 1
  /\ UNCHANGED <<authVars, inflight, pair, isWeb, localStorage, db, isLoading, selectedDate, remoteSeq, clock>>

\* setSelectedDate(date): set the date and start fetchEntries(date) and
\* fetchSummary(date) without awaiting them; the two complete in either order.
SetSelectedDate(date, eok, sok, summaryFirst) ==
  /\ nOps < MaxOps
  /\ selectedDate' = date
  /\ \E r \in fetchEntries(St, remote, date, eok) :
       /\ entries' = r.entries
       /\ SetStore(r.st)
       /\ summary' = fetchSummary(IF summaryFirst THEN entries ELSE r.entries, remote, date, sok)
  /\ isLoading' = FALSE
  /\ last' = [Op("setSelectedDate") EXCEPT !.date = date, !.ok = eok, !.summaries = 1]
  /\ nOps' = nOps + 1
  /\ UNCHANGED <<authVars, inflight, pair, isWeb, remote, remoteSeq, clock>>

\* syncOfflineEntries without its try/catch blocks: the first create that
\* fails ends the pass and is raised to the caller
SyncOfflineEntriesUncaught(fail, eok, sok) ==
  /\ nOps < MaxOps
  /\ fail \subseteq 1..Len(unsynced(St))
  /\ LET list == unsynced(St)
         first == IF fail = {} THEN Len(list) + 1
                  ELSE CHOOSE i \in fail : \A j \in fail : i <= j
         done == SyncLoop([st |-> St, remote |-> remote, remoteSeq |-> remoteSeq,
                           posts |-> <<>>, clock |-> clock],
                          SubSeq(list, 1, first - 1), 1, {})
     IN /\ remote' = done.remote
        /\ clock' = done.clock
        /\ remoteSeq' = done.remoteSeq
        /\ IF fail = {}
           THEN \E r \in fetchEntries(done.st, done.remote, selectedDate, eok) :
                  /\ entries' = r.entries
                  /\ SetStore(r.st)
                  /\ summary' = fetchSummary(r.entries, done.remote, selectedDate, sok)
           ELSE /\ eok /\ sok
                /\ SetStore(done.st)
                /\ UNCHANGED <<entries, summary>>
        /\ last' = [Op("syncOfflineEntries") EXCEPT
                      !.posts = done.posts \o (IF fail = {} THEN <<>> ELSE <<PostBody(list[first])>>),
                      !.sel = list, !.fail = fail, !.ok = (fail = {}),
                      !.summaries = IF fail = {} THEN 1 ELSE 0,
                      !.raised = (fail # {}), !.refreshed = (fail = {} /\ eok)]
  /\ isLoading' = FALSE
  /\ nOps' = nOps + 1
  /\ UNCHANGED <<authVars, inflight, pair, isWeb, selectedDate>>

\* syncOfflineEntries that refreshes the view and the summary before its loop
\* over the selected entries
SyncOfflineEntriesRefreshFirst(fail, eok, sok) ==
  /\ nOps < MaxOps
  /\ fail \subseteq 1..Len(unsynced(St))
  /\ \E r \in fetchEntries(St, remote, selectedDate, eok) :
       LET list == unsynced(St)
           done == SyncLoop([st |-> r.st, remote |-> remote, remoteSeq |-> remoteSeq,
                             posts |-> <<>>, clock |-> clock], list, 1, fail)
       IN /\ remote' = done.remote
          /\ clock' = done.clock
          /\ remoteSeq' = done.remoteSeq
          /\ entries' = r.entries
          /\ SetStore(done.st)
          /\ summary' = fetchSummary(r.entries, remote, selectedDate, sok)
          /\ last' = [Op("syncOfflineEntries") EXCEPT !.posts = done.posts, !.sel = list,
                                                        !.fail = fail, !.ok = (fail = {}),
                                                        !.summaries = 1, !.refreshed = eok]
  /\ isLoading' = FALSE
  /\ nOps' = nOps + 1
  /\ UNCHANGED <<authVars, inflight, pair, isWeb, selectedDate>>

\* syncOfflineEntries(): post every selected entry, then fetchEntries() and
\* fetchSummary(); nothing is raised.
SyncOfflineEntries(fail, eok, sok) ==
  /\ nOps < MaxOps
  /\ fail \subseteq 1..Len(unsynced(St))
  /\ LET list == unsynced(St)
         done == SyncLoop([st |-> St, remote |-> remote, remoteSeq |-> remoteSeq,
                           posts |-> <<>>, clock |-> clock], list, 1, fail)
     IN /\ remote' = done.remote
        /\ clock' = done.clock
        /\ remoteSeq' = done.remoteSeq
        /\ \E r \in fetchEntries(done.st, done.remote, selectedDate, eok) :
             /\ entries' = r.entries
             /\ SetStore(r.st)
             /\ summary' = fetchSummary(r.entries, done.remote, selectedDate, sok)
        /\ last' = [Op("syncOfflineEntries") EXCEPT !.posts = done.posts, !.sel = list,
                                                      !.fail = fail, !.ok = (fail = {}),
                                                      !.summaries = 1, !.refreshed = eok]
  /\ isLoading' = FALSE
  /\ nOps' = nOps + 1
  /\ UNCHANGED <<authVars, inflight, pair, isWeb, selectedDate>>

\* the identifiers the UI can name: those in the view and those in the cache
KnownIds ==
  {e.id : e \in Range(entries)} \cup {e.id : e \in Range(localStorage)}
    \cup {r.id : r \in db.rows}

\* the optional date argument: absent, or a date other than the selected one
\* (an explicit date equal to selectedDate gives the same targetDate as none)
DateArgs == {NoDate} \cup (Dates \ {selectedDate})

Next ==
  \/ \E date \in DateArgs, ok \in BOOLEAN : FetchEntries(date, ok)
  \/ \E date \in DateArgs, ok \in BOOLEAN : FetchSummary(date, ok)
  \/ \E draft \in Drafts, ok, sok \in BOOLEAN, now \in Readings : AddEntry(draft, ok, sok, now)
  \/ \E id \in KnownIds, ok, sok \in BOOLEAN : DeleteEntry(id, ok, sok)
  \/ \E date \in Dates, eok, sok, summaryFirst \in BOOLEAN :
       SetSelectedDate(date, eok, sok, summaryFirst)
  \/ \E fail \in SUBSET (1..Len(unsynced(St))), eok, sok \in BOOLEAN :
       SyncOfflineEntries(fail, eok, sok)

Spec == Init /\ [][Next]_vars

----------------------------------------------------------------------------
\* The notions the properties are stated with.

\* an identifier made by Date.now(): every clock reading is at or after Epoch
IsPlaceholder(id) == id >= Epoch

\* The pending rows of the cache: written by a failed addEntry and not yet
\* confirmed. On mobile these are the rows with synced = 0; localStorage has
\* no flag, there they are the rows that still carry a placeholder identifier.
PendingRows(st) ==
  IF isWeb THEN {e \in Range(st.ls) : IsPlaceholder(e.id)}
           ELSE {r \in st.db.rows : r.synced = 0}

\* The confirmed rows of the cache, as entries.
ConfirmedRows(st) ==
  IF isWeb THEN {e \in Range(st.ls) : ~IsPlaceholder(e.id)}
           ELSE {Fields(r) : r \in {q \in st.db.rows : q.synced = 1}}

\* all rows of the cache, as entries
AllRows(st) ==
  IF isWeb THEN Range(st.ls) ELSE {Fields(r) : r \in st.db.rows}

\* the step is a completed call of the operation `name`
Step(name) == nOps' = nOps + 1 /\ last'.op = name

----------------------------------------------------------------------------
\* C1: offline-then-sync convergence. After addEntry(d) failed remotely the
\* cache holds d as a pending row; after a syncOfflineEntries pass in which
\* every create succeeded the cache has no pending row, and the draft of the
\* failed addEntry that ran just before the pass is held as a confirmed row.
C1_OfflineThenSyncConverges ==
  /\ (last.op = "addEntry" /\ ~last.ok) =>
       \E r \in PendingRows(St) : PostBody(r) = last.draft
  /\ (last.op = "syncOfflineEntries" /\ last.fail = {}) =>
       /\ PendingRows(St) = {}
       /\ (last.before.op = "addEntry" /\ ~last.before.ok) =>
            \E r \in ConfirmedRows(St) : PostBody(r) = last.before.draft

\* C2: partial-failure resilience. A syncOfflineEntries pass attempts a create
\* for every pending row, one request per selected entry whatever fails, and
\* afterwards exactly the pending rows whose create failed are still pending
\* and the content of every other one is held as a confirmed row.
C2_PartialFailureResilience ==
  [][Step("syncOfflineEntries") =>
       LET failed == {last'.sel[i] : i \in last'.fail} \cap PendingRows(St)
       IN /\ \A p \in PendingRows(St) : \E i \in 1..Len(last'.sel) : last'.sel[i] = p
          /\ Len(last'.posts) = Len(last'.sel)
          /\ PendingRows(St') = failed
          /\ \A p \in PendingRows(St) \ failed :
               \E r \in ConfirmedRows(St') : PostBody(r) = PostBody(p)]_vars

\* C3: syncOfflineEntries is idempotent. A pass that runs right after another
\* pass submits only entries the first pass left pending, so no more than
\* failed in the first pass.
C3_SyncIdempotent ==
  [][(last.op = "syncOfflineEntries" /\ Step("syncOfflineEntries")) =>
       /\ \A i \in 1..Len(last'.sel) : last'.sel[i] \in PendingRows(St)
       /\ Len(last'.posts) <= Cardinality(last.fail)]_vars

\* C4: on every backend the entries syncOfflineEntries selects are exactly the
\* pending rows of the cache: no confirmed row is selected and every pending
\* row is.
C4_SelectsExactlyPending ==
  Range(unsynced(St)) = PendingRows(St)


\* C5: when the create request of addEntry(draft) fails, the error is raised
\* to the caller and the cache holds a pending row with the draft's content;
\* an addEntry whose request succeeded raises nothing.
C5_FailedAddIsCachedPending ==
  last.op = "addEntry" =>
    /\ last.raised <=> ~last.ok
    /\ last.raised => \E r \in PendingRows(St) : PostBody(r) = last.draft

C5_Witness ==
  /\ last.op = "addEntry" /\ last.raised
  /\ \E r \in PendingRows(St) : PostBody(r) = last.draft
  /\ \A e \in remote : PostBody(e) # last.draft

\* C6: round trip. A successful addEntry(d) leaves the entry the remote
\* returned in the cache as a confirmed row and creates no pending row; a
\* fetchEntries for the entry's date that runs next, served by the remote or
\* by the cache, puts an entry equal to it in the view.
C6_OnlineAddRoundTrip ==
  [][/\ (Step("addEntry") /\ last'.ok) =>
          /\ last'.data \in ConfirmedRows(St')
          /\ PostBody(last'.data) = last'.draft
          /\ PendingRows(St') \subseteq PendingRows(St)
     /\ (last.op = "addEntry" /\ last.ok /\ Step("fetchEntries")
           /\ last'.date = last.data.entry_date) =>
          \E i \in 1..Len(entries') : Fields(entries'[i]) = last.data]_vars

C6_Witness ==
  /\ last.op = "fetchEntries" /\ ~last.ok
  /\ last.before.op = "addEntry" /\ last.before.ok
  /\ last.date = last.before.data.entry_date
  /\ \E i \in 1..Len(entries) : Fields(entries[i]) = last.before.data

\* seq is listByDate(date) of the cache st: exactly the cached rows of that
\* date, each once, most recent first
IsListByDate(seq, st, date) ==
  /\ {Fields(e) : e \in Range(seq)} = {r \in AllRows(st) : r.entry_date = date}
  /\ Len(seq) = IF isWeb
                THEN Len(SelectSeqBy(st.ls, {e \in Range(st.ls) : e.entry_date = date}))
                ELSE Cardinality({r \in st.db.rows : r.entry_date = date})
  /\ \A i, j \in 1..Len(seq) : i < j => seq[i].created_at >= seq[j].created_at

\* C7: when the list request fails, fetchEntries(date) raises nothing, the
\* view becomes the cached entries of that date, most recent first, and no
\* cache row changes.
C7_FetchFailureServesCache ==
  [][(Step("fetchEntries") /\ ~last'.ok) =>
       /\ ~last'.raised
       /\ IsListByDate(entries', St, last'.date)
       /\ St' = St]_vars

C7_Witness ==
  /\ last.op = "fetchEntries" /\ ~last.ok
  /\ entries # <<>>
  /\ \E r \in AllRows(St) : r.entry_date # last.date

\* C8: fetch merge. After fetchEntries(date) succeeded with result R the
\* confirmed rows the cache holds for that date are exactly R and the pending
\* rows of that date are the ones held before.
C8_FetchMerge ==
  [][(Step("fetchEntries") /\ last'.ok) =>
       /\ {r \in ConfirmedRows(St') : r.entry_date = last'.date}
            = Range(RemoteList(remote, last'.date))
       /\ {p \in PendingRows(St') : p.entry_date = last'.date}
            = {p \in PendingRows(St) : p.entry_date = last'.date}]_vars

\* C9: deleteEntry(id) for the identifier of a pending row sends no delete
\* request to the remote and removes the row from the cache.
C9_DeletePendingIsLocal ==
  [][(Step("deleteEntry") /\ last'.id \in {p.id : p \in PendingRows(St)}) =>
       /\ last'.deletes = <<>>
       /\ \A r \in AllRows(St') : r.id # last'.id]_vars

\* the identifiers of confirmed entries: confirmed in the cache or held by the remote
ConfirmedIds == {r.id : r \in ConfirmedRows(St)} \cup {e.id : e \in remote}

\* C10: a deleteEntry(id) on a confirmed entry whose delete request fails
\* raises the failure and leaves the cache, the view, the summary and the
\* remote as they were.
C10_FailedDeleteChangesNothing ==
  [][(Step("deleteEntry") /\ ~last'.ok /\ last'.id \in ConfirmedIds) =>
       /\ last'.raised
       /\ St' = St
       /\ entries' = entries
       /\ summary' = summary
       /\ remote' = remote]_vars

C10_Witness ==
  /\ last.op = "deleteEntry" /\ last.raised
  /\ last.id \in ConfirmedIds
  /\ \E i \in 1..Len(entries) : entries[i].id = last.id
  /\ summary # NoSummary

\* C11: after a deleteEntry(id) on a confirmed entry whose delete request
\* succeeded the cache holds no row with identifier id, and a fetchEntries
\* that runs next and is served by the cache does not return that entry.
C11_DeleteRemovesCachedRow ==
  [][/\ (Step("deleteEntry") /\ last'.ok /\ last'.id \in ConfirmedIds) =>
          \A r \in AllRows(St') : r.id # last'.id
     /\ (last.op = "deleteEntry" /\ last.ok
           /\ last.id \in {r.id : r \in ConfirmedRows(St)}
           /\ Step("fetchEntries") /\ ~last'.ok) =>
          \A i \in 1..Len(entries') : entries'[i].id # last.id]_vars

\* C12: when the summary request fails, fetchSummary(date) raises nothing and
\* the summary it leaves carries the requested date and, as totals, the sums
\* of the macro fields over exactly the entries of the view whose entry_date
\* is that date.
C12_FallbackSummation ==
  (last.op = "fetchSummary" /\ ~last.ok) =>
    /\ ~last.raised
    /\ summary.date = last.date
    /\ LET t == Totals(SelectSeqBy(entries,
                         {e \in Range(entries) : e.entry_date = last.date}))
       IN /\ summary.calories = t.calories
          /\ summary.protein = t.protein
          /\ summary.carbs = t.carbs
          /\ summary.fats = t.fats

\* the goal values of a summary
Goals(s) ==
  [calorie_goal |-> s.calorie_goal, protein_goal |-> s.protein_goal,
   carb_goal |-> s.carb_goal, fat_goal |-> s.fat_goal]

\* C13: goal caching. Once a fetchSummary succeeded remotely and returned the
\* goal values G, a fetchSummary whose request fails returns the goals G, not
\* the hard-coded defaults.
C13_GoalsCached ==
  [][(summary # NoSummary /\ Goals(summary) = RemoteGoals
        /\ Step("fetchSummary") /\ ~last'.ok) =>
       Goals(summary') = RemoteGoals]_vars

\* the number of rows of the cache st that carry the identifier id
RowsWithId(st, id) ==
  IF isWeb THEN Len(SelectSeqBy(st.ls, {e \in Range(st.ls) : e.id = id}))
           ELSE Cardinality({r \in st.db.rows : r.id = id})

\* C14: upsert idempotence. On both backends, upserting an entry the remote
\* holds leaves exactly one row with its identifier, and upserting the same
\* entry again leaves the cache as the first upsert left it.
C14_UpsertIdempotent ==
  \A e \in remote :
    LET once == cacheEntryLocally(St, e)
        twice == cacheEntryLocally(once, e)
    IN /\ RowsWithId(once, e.id) = 1
       /\ twice = once

C14_Witness ==
  /\ last.op = "fetchEntries" /\ last.ok
  /\ last.before.op = "addEntry" /\ last.before.ok
  /\ last.before.data.entry_date = last.date
  /\ last.before.data \in remote
  /\ RowsWithId(St, last.before.data.id) = 1

\* the server identifier of the create at position i of a pass that starts at
\* remoteSeq and whose requests at the positions in fail fail
CreatedId(i, fail) == remoteSeq + Cardinality({j \in 1..i : j \notin fail})

\* C15: markConfirmed. When the create of a syncOfflineEntries pass for a
\* pending row with placeholder identifier p succeeds and the remote returns
\* the server identifier s, after the pass the cache holds a confirmed row
\* with identifier s and the pending row's date, and no row with identifier p
\* unless p is the identifier of an entry the remote holds.
C15_MarkConfirmed ==
  [][Step("syncOfflineEntries") =>
       \A i \in 1..Len(last'.sel) :
         (i \notin last'.fail /\ last'.sel[i] \in PendingRows(St)) =>
           LET p == last'.sel[i].id
               s == CreatedId(i, last'.fail)
           IN /\ \E r \in ConfirmedRows(St') :
                   r.id = s /\ r.entry_date = last'.sel[i].entry_date
              /\ p \notin {e.id : e \in remote'} =>
                   \A r \in AllRows(St') : r.id # p]_vars

\* C16: placeholder identifiers never collide with server identifiers. No
\* pending row of the cache carries an identifier the remote has assigned or
\* the one it assigns next.
C16_PlaceholderIdsDisjoint ==
  \A p \in PendingRows(St) : p.id \notin 1..(remoteSeq + 1)

\* C17: lifecycle. A pending row leaves the pending rows of the cache only by
\* a successful create of a syncOfflineEntries pass that selected it or by a
\* deleteEntry of its identifier, and no identifier of a confirmed row becomes
\* the identifier of a pending row.
C17_Lifecycle ==
  [][/\ \A p \in PendingRows(St) \ PendingRows(St') :
          \/ /\ Step("syncOfflineEntries")
             /\ \E i \in 1..Len(last'.sel) : i \notin last'.fail /\ last'.sel[i] = p
          \/ Step("deleteEntry") /\ last'.id = p.id
     /\ \A q \in PendingRows(St') \ PendingRows(St) :
          q.id \notin {r.id : r \in ConfirmedRows(St)}]_vars

\* C20: syncOfflineEntries never surfaces a failure. Whatever creates of the
\* pass fail, and whether or not the list and summary requests of the refresh
\* that follows fail, the call completes with its refresh and raises nothing.
C20_SyncNeverRaises ==
  last.op = "syncOfflineEntries" =>
    /\ ~last.raised
    /\ Len(last.posts) = Len(last.sel)
    /\ summary # NoSummary /\ summary.date = selectedDate

C20_Witness ==
  /\ last.op = "syncOfflineEntries" /\ ~last.raised
  /\ last.fail # {} /\ last.fail # 1..Len(last.sel)
  /\ entries # RemoteList(remote, selectedDate)
  /\ Goals(summary) # RemoteGoals

----------------------------------------------------------------------------
\* Overlapping requests. setSelectedDate does not await the fetchEntries and
\* the fetchSummary it starts, and the screens call it again while these are
\* waiting for the remote; each handler below is the part of the source that
\* runs between two awaits, and the responses of the requests in flight
\* arrive in any order.

\* a request in flight: the list or the summary request of the call number n
Request(kind, date, n) == [kind |-> kind, date |-> date, n |-> n]

\* setSelectedDate(date) up to the awaits of the two calls it starts: the
\* date is set, fetchEntries sets isLoading, both requests are sent
SetSelectedDateCall(date) ==
  /\ nOps < MaxOps
  /\ selectedDate' = date
  /\ isLoading' = TRUE
  /\ inflight' = inflight \cup {Request("entries", date, nOps), Request("summary", date, nOps)}
  /\ last' = [Op("setSelectedDate") EXCEPT !.date = date, !.summaries = 1]
  /\ nOps' = nOps + 1
  /\ UNCHANGED <<authVars, pair, isWeb, localStorage, db, entries, summary, remote, remoteSeq, clock>>

\* fetchEntries(date) from the arrival of its response: the view is set from
\* the response, or from the cache when the request failed
EntriesResponse(req, ok) ==
  /\ req \in inflight /\ req.kind = "entries"
  /\ \E r \in fetchEntries(St, remote, req.date, ok) :
       /\ entries' = r.entries
       /\ SetStore(r.st)
  /\ isLoading' = FALSE
  /\ inflight' = inflight \ {req}
  /\ last' = [Op("fetchEntries") EXCEPT !.date = req.date, !.ok = ok]
  /\ UNCHANGED <<authVars, pair, isWeb, summary, selectedDate, remote, remoteSeq, clock, nOps>>

\* fetchSummary(date) from the arrival of its response
SummaryResponse(req, ok) ==
  /\ req \in inflight /\ req.kind = "summary"
  /\ summary' = fetchSummary(entries, remote, req.date, ok)
  /\ inflight' = inflight \ {req}
  /\ last' = [Op("fetchSummary") EXCEPT !.date = req.date, !.ok = ok, !.summaries = 1]
  /\ UNCHANGED <<authVars, pair, isWeb, localStorage, db, entries, isLoading, selectedDate,
                 remote, remoteSeq, clock, nOps>>

\* The store with overlapping date changes; entries are added while no
\* request is in flight.
NextOverlap ==
  \/ \E draft \in Drafts, ok, sok \in BOOLEAN, now \in Readings :
       inflight = {} /\ AddEntry(draft, ok, sok, now)
  \/ \E date \in Dates : SetSelectedDateCall(date)
  \/ \E req \in inflight, ok \in BOOLEAN : EntriesResponse(req, ok)
  \/ \E req \in inflight, ok \in BOOLEAN : SummaryResponse(req, ok)

SpecOverlap == Init /\ [][NextOverlap]_vars

\* C19: stale-response guard. When the list requests of overlapping date
\* changes have all completed, the view set by the responses holds entries of
\* the selected date only, whatever order the responses arrived in: a
\* response for a date that is no longer selected has been discarded.
C19_StaleResponseDiscarded ==
  (last.op = "fetchEntries" /\ \A req \in inflight : req.kind # "entries") =>
    \A i \in 1..Len(entries) : entries[i].entry_date = selectedDate

----------------------------------------------------------------------------
\* Backend comparison. Two stores, one on each backend, are given the same
\* calls with the same remote responses: the web run makes the call, then the
\* mobile run makes it, and what can be observed of the two is compared. The
\* run that is not live is kept in pair.twin.

\* what the comparison observes of the live run after a call: the content of
\* the cached entries of each date, the content of the pending rows and the
\* create and delete requests the call sent
Observed ==
  [cached |-> [d \in Dates |-> {PostBody(r) : r \in {x \in AllRows(St) : x.entry_date = d}}],
   pending |-> {PostBody(p) : p \in PendingRows(St)},
   requests |-> [posts |-> Range(last.posts), deletes |-> Range(last.deletes)]]

\* both runs have made the same number of calls and none is chosen
Settled == isWeb /\ pair.inp = NoInput /\ nOps = pair.twin.nOps

\* the next call and its remote responses are chosen
ChooseCall ==
  /\ Settled
  /\ nOps < MaxOps
  /\ \E inp \in
         {[op |-> "fetchEntries", date |-> d, ok |-> ok] : d \in DateArgs, ok \in BOOLEAN}
           \cup {[op |-> "addEntry", draft |-> d, ok |-> TRUE, sok |-> sok, dt |-> 0] :
                   d \in Drafts, sok \in BOOLEAN}
           \cup {[op |-> "addEntry", draft |-> d, ok |-> FALSE, sok |-> TRUE, dt |-> dt] :
                   d \in Drafts, dt \in 0..1}
           \cup {[op |-> "deleteEntry", id |-> id, ok |-> ok, sok |-> sok] :
                   id \in {k \in KnownIds : ~IsPlaceholder(k)}, ok \in BOOLEAN, sok \in BOOLEAN}
           \cup {[op |-> "syncOfflineEntries", fail |-> f, eok |-> eok, sok |-> sok] :
                   f \in SUBSET (1..(MaxOps - 1)), eok \in BOOLEAN, sok \in BOOLEAN} :
       pair' = [pair EXCEPT !.inp = inp]
  /\ UNCHANGED <<authVars, isWeb, localStorage, db, entries, summary, isLoading, selectedDate,
                 remote, remoteSeq, clock, last, nOps, inflight>>

\* the live run makes the chosen call: the web run first, then the mobile run
PairCall ==
  /\ pair.inp # NoInput
  /\ \/ isWeb /\ nOps = pair.twin.nOps
     \/ ~isWeb /\ nOps + 1 = pair.twin.nOps
  /\ LET inp == pair.inp
     IN \/ inp.op = "fetchEntries" /\ FetchEntries(inp.date, inp.ok)
        \/ inp.op = "addEntry" /\ AddEntry(inp.draft, inp.ok, inp.sok, clock + inp.dt)
        \/ inp.op = "deleteEntry" /\ DeleteEntry(inp.id, inp.ok, inp.sok)
        \/ inp.op = "syncOfflineEntries"
             /\ SyncOfflineEntries(inp.fail \cap (1..Len(unsynced(St))), inp.eok, inp.sok)

\* the run that made the call is put aside with what was observed of it and
\* the other run becomes the live one
SwapRuns ==
  /\ \/ isWeb /\ nOps = pair.twin.nOps + 1
     \/ ~isWeb /\ nOps = pair.twin.nOps
  /\ isWeb' = ~isWeb
  /\ localStorage' = pair.twin.localStorage
  /\ db' = pair.twin.db
  /\ entries' = pair.twin.entries
  /\ summary' = pair.twin.summary
  /\ isLoading' = pair.twin.isLoading
  /\ selectedDate' = pair.twin.selectedDate
  /\ remote' = pair.twin.remote
  /\ remoteSeq' = pair.twin.remoteSeq
  /\ clock' = pair.twin.clock
  /\ last' = pair.twin.last
  /\ nOps' = pair.twin.nOps
  /\ inflight' = pair.twin.inflight
  /\ pair' = [inp |-> IF isWeb THEN pair.inp ELSE NoInput, twin |-> Context, obs |-> Observed]
  /\ UNCHANGED authVars

NextPair == ChooseCall \/ PairCall \/ SwapRuns

\* the comparison starts with the web run live
InitPair == Init /\ isWeb

SpecPair == InitPair /\ [][NextPair]_vars

\* C18: backend equivalence. After every call of a sequence of fetchEntries,
\* addEntry, deleteEntry and syncOfflineEntries calls made with the same
\* remote responses on the localStorage backend and on the SQLite backend,
\* the two caches hold the same entries per date and the same pending
\* entries, and the call sent the same requests to the remote.
C18_BackendsEquivalent ==
  (Settled /\ pair.obs # NoObs) => Observed = pair.obs

----------------------------------------------------------------------------
\* Retrying. The remote has recovered: every create of a pass succeeds, and
\* so do the requests of its refresh; the pass is run again as long as the
\* cache holds a pending row. The entries are the ones addEntry was called
\* with before, at most MaxOps of them.

\* the remote stops accepting creates at this many entries
MaxRemote == 4

\* a syncOfflineEntries pass in which every request succeeds: the loop, then
\* fetchEntries() and fetchSummary() on their success branches (the view is
\* the list the remote returns, each of its entries is cached, the summary is
\* the remote's). Each intermediate result is bound once.
SyncPendingRetry ==
  /\ PendingRows(St) # {}
  /\ remoteSeq + Len(unsynced(St)) <= MaxRemote
  /\ \E list \in {unsynced(St)} :
     \E done \in {SyncLoop([st |-> St, remote |-> remote, remoteSeq |-> remoteSeq,
                             posts |-> <<>>, clock |-> clock], list, 1, {})} :
     \E data \in {RemoteList(done.remote, selectedDate)} :
     \E totals \in {Totals(data)} :
       /\ remote' = done.remote
       /\ clock' = done.clock
       /\ remoteSeq' = done.remoteSeq
       /\ entries' = data
       /\ SetStore(CacheAll(done.st, data))
       /\ summary' = MacroSummary(selectedDate, totals, RemoteGoals)
       /\ last' = [Op("syncOfflineEntries") EXCEPT !.posts = done.posts, !.sel = list,
                                                     !.summaries = 1, !.refreshed = TRUE]
  /\ isLoading' = FALSE
  /\ UNCHANGED <<authVars, inflight, pair, isWeb, selectedDate, nOps>>

NextRetry ==
  \/ \E draft \in Drafts, ok, sok \in BOOLEAN, now \in Readings : AddEntry(draft, ok, sok, now)
  \/ SyncPendingRetry

\* the pass is run again whenever it can do something
SpecRetry == Init /\ [][NextRetry]_vars /\ WF_vars(SyncPendingRetry)

\* C21: eventual consistency. Once every create succeeds and the pass is
\* retried while pending rows exist, eventually and from then on the cache
\* has no pending row and the remote holds one entry for each addEntry call
\* that was made.
C21_EventuallyConsistent ==
  <>[](PendingRows(St) = {} /\ Cardinality(remote) = nOps)

\* C22: offline visibility. Right after an addEntry(d) for the selected date
\* whose create request failed, the view holds the pending entry of d, and a
\* fetchSummary for that date that runs next and falls back to the local
\* computation counts its macros.
C22_OfflineVisible ==
  [][/\ (Step("addEntry") /\ ~last'.ok /\ last'.draft.entry_date = selectedDate) =>
          \E i \in 1..Len(entries') :
            /\ entries'[i].id \in {p.id : p \in PendingRows(St')}
            /\ PostBody(entries'[i]) = last'.draft
     /\ (last.op = "addEntry" /\ ~last.ok /\ last.draft.entry_date = selectedDate
           /\ Step("fetchSummary") /\ ~last'.ok /\ last'.date = selectedDate) =>
          summary'.calories >= last.draft.calories]_vars

\* C23: on both backends getCachedEntries(date) returns exactly the cached
\* entries whose entry_date is date, each once, the most recent first, and
\* the empty sequence when the cache holds none of that date.
C23_ListByDate ==
  \A date \in Dates :
    /\ getCachedEntries(St, date) # {}
    /\ \A s \in getCachedEntries(St, date) :
         /\ IsListByDate(s, St, date)
         /\ (\A r \in AllRows(St) : r.entry_date # date) => s = <<>>

C23_Witness ==
  \E date \in Dates :
    /\ \E r \in AllRows(St) : r.entry_date # date
    /\ \E s \in getCachedEntries(St, date) :
         /\ Len(s) >= 2
         /\ s[1].created_at > s[Len(s)].created_at

\* C24: a placeholder identifier is never sent to the remote. Every create
\* request of a syncOfflineEntries pass carries the content of the entry
\* without an identifier, and no delete request names the identifier of a
\* pending row.
C24_PlaceholderNeverSent ==
  [][/\ Step("syncOfflineEntries") =>
          \A i \in 1..Len(last'.posts) : "id" \notin DOMAIN last'.posts[i]
     /\ Step("deleteEntry") =>
          \A i \in 1..Len(last'.deletes) :
            last'.deletes[i] \notin {p.id : p \in PendingRows(St)}]_vars

\* C25: identifier uniqueness. After any sequence of calls the cache never
\* holds two rows with the same identifier, and every row has exactly one
\* sync state.
C25_IdentifiersUnique ==
  /\ \A r \in AllRows(St) : RowsWithId(St, r.id) = 1
  /\ {p.id : p \in PendingRows(St)} \cap {r.id : r \in ConfirmedRows(St)} = {}
  /\ {p.id : p \in PendingRows(St)} \cup {r.id : r \in ConfirmedRows(St)}
       = {r.id : r \in AllRows(St)}

\* C27: a summary computation follows every entry mutation and every date
\* change. Each completed addEntry, whether its create succeeded or failed,
\* each deleteEntry whose request succeeded and each setSelectedDate has
\* called fetchSummary when it completes.
C27_SummaryAfterMutation ==
  /\ last.op = "addEntry" => last.summaries >= 1
  /\ (last.op = "deleteEntry" /\ last.ok) => last.summaries >= 1
  /\ last.op = "setSelectedDate" => last.summaries >= 1

\* C30: single-date view. All entries of the view have the same entry_date;
\* a successful addEntry for a date other than the one shown does not put its
\* entry into the view.
C30_SingleDateView ==
  \A i, j \in 1..Len(entries) : entries[i].entry_date = entries[j].entry_date

----------------------------------------------------------------------------
\* A failing local store. The statement that caches the confirmed entry of a
\* successful addEntry fails (localStorage.setItem over quota, db.runAsync
\* rejecting); it is inside the try block of addEntry, so the catch branch
\* runs: cacheEntry(entry), which stores the draft when `cached` and fails in
\* its turn otherwise, then the error is rethrown.
AddEntryStoreFails(draft, sok, cached) ==
  /\ nOps < MaxOps
  /\ LET newEntry == RemoteCreate(remoteSeq, draft, ServerTime(clock))
     IN /\ clock' = ServerTime(clock)
        /\ remote' = remote \cup {newEntry}
        /\ remoteSeq' = remoteSeq + 1
        /\ entries' = <<newEntry>> \o entries
        /\ summary' = fetchSummary(entries', remote', selectedDate, sok)
        /\ SetStore(IF cached THEN cacheEntry(St, draft, clock') ELSE St)
        /\ last' = [Op("addEntry") EXCEPT !.draft = draft, !.posts = <<draft>>,
                                          !.data = newEntry, !.raised = TRUE,
                                          !.summaries = 1]
  /\ nOps' = nOps + 1
  /\ UNCHANGED <<authVars, inflight, pair, isWeb, isLoading, selectedDate>>

NextStoreFails ==
  \/ Next
  \/ \E draft \in Drafts, sok, cached \in BOOLEAN : AddEntryStoreFails(draft, sok, cached)

SpecStoreFails == Init /\ [][NextStoreFails]_vars

\* C28: a draft is created remotely at most once even when the local store
\* fails. An addEntry whose create request succeeded stores no pending row
\* with the draft, whatever happens to its later steps, so that no
\* syncOfflineEntries pass creates the draft again.
C28_NoPendingAfterCreate ==
  [][(Step("addEntry") /\ last'.ok) =>
       \A p \in PendingRows(St') \ PendingRows(St) : PostBody(p) # last'.draft]_vars

----------------------------------------------------------------------------
\* The store with its calls in flight together. The handlers are async
\* functions on one JavaScript thread: the code between two awaits runs
\* without interruption, and any other call may run at an await. A task is a
\* call at one of its awaits:
\*   phase "get":     fetchEntries awaits the response of its list request
\*   phase "cache":   fetchEntries awaits cacheEntryLocally(list[i])
\*   phase "post":    addEntry awaits the response of its create request
\*   phase "summary": the call awaits the fetchSummary it started; an addEntry
\*                    then caches `entry`
\*   phase "loop":    syncOfflineEntries awaits the create request of list[i]
\* syncOfflineEntries goes on as fetchEntries and fetchSummary after its loop.
\* `seen` is the cache as the task last read or wrote it.
Task(op, n, phase, date, list, i, draft, entry, seen) ==
  [op |-> op, n |-> n, phase |-> phase, date |-> date, list |-> list, i |-> i,
   draft |-> draft, entry |-> entry, seen |-> seen]

\* a call can start
CanCall == nOps < MaxOps

\* the drafts the entry screen saves: those of today, the day shown
TaskDrafts == {d \in Drafts : d.entry_date = selectedDate}

\* the cache with every write applied to the copy the task read before its await
CacheBaseStale(req) == req.seen

\* The cache contents a write of the task is applied to. getWebCache() is
\* called in the same synchronous block as saveWebCache(), after the await;
\* an SQLite statement works on the table as it is when it runs.
CacheBase(req) == St

\* the task goes on as `next`, or ends when next is the task itself
Continue(req, next) ==
  inflight' = (inflight \ {req}) \cup (IF next = req THEN {} ELSE {next})

\* fetchEntries() up to the await of its request
FetchEntriesCall ==
  /\ CanCall
  /\ isLoading' = TRUE
  /\ inflight' = inflight \cup {Task("fetchEntries", nOps, "get", selectedDate, <<>>, 1,
                                     NoDraft, NoEntry, St)}
  /\ last' = [Op("fetchEntries") EXCEPT !.date = selectedDate]
  /\ nOps' = nOps + 1
  /\ UNCHANGED <<authVars, pair, isWeb, localStorage, db, entries, summary, selectedDate, remote,
                 remoteSeq, clock>>

\* the task after the fetchEntries part: a plain fetchEntries ends, a
\* syncOfflineEntries calls fetchSummary()
AfterEntries(req, st) ==
  IF req.op = "syncOfflineEntries" THEN [req EXCEPT !.phase = "summary", !.seen = st] ELSE req

\* the response of the list request: the view is set; on success the loop
\* over response.data starts, on failure the view is the cached list
EntriesArrive(req, ok) ==
  /\ req \in inflight /\ req.phase = "get"
  /\ IF ok
     THEN LET data == RemoteList(remote, req.date)
          IN /\ entries' = data
             /\ Continue(req, IF data = <<>> THEN AfterEntries(req, St)
                              ELSE [req EXCEPT !.phase = "cache", !.list = data, !.i = 1,
                                               !.seen = St])
     ELSE /\ entries' \in getCachedEntries(CacheBase(req), req.date)
          /\ Continue(req, AfterEntries(req, St))
  /\ isLoading' = FALSE
  /\ UNCHANGED <<authVars, pair, isWeb, localStorage, db, summary, selectedDate, remote, remoteSeq,
                 clock, last, nOps>>

\* await cacheEntryLocally(entry) for the next entry of response.data
CacheNext(req) ==
  /\ req \in inflight /\ req.phase = "cache"
  /\ SetStore(cacheEntryLocally(CacheBase(req), req.list[req.i]))
  /\ Continue(req, IF req.i = Len(req.list) THEN AfterEntries(req, St')
                   ELSE [req EXCEPT !.i = @ + 1, !.seen = St'])
  /\ UNCHANGED <<authVars, pair, isWeb, entries, summary, isLoading, selectedDate, remote, remoteSeq,
                 clock, last, nOps>>

\* addEntry(entry) up to the await of its create request
AddEntryCall(draft) ==
  /\ CanCall
  /\ inflight' = inflight \cup {Task("addEntry", nOps, "post", selectedDate, <<>>, 1,
                                     draft, NoEntry, St)}
  /\ last' = [Op("addEntry") EXCEPT !.draft = draft, !.posts = <<draft>>]
  /\ nOps' = nOps + 1
  /\ UNCHANGED <<authVars, pair, isWeb, localStorage, db, entries, summary, isLoading, selectedDate,
                 remote, remoteSeq, clock>>

\* the response of the create request of addEntry: on success the entry is
\* prepended to the view and fetchSummary() is called; on failure the draft
\* is cached and the error rethrown
CreateArrives(req, ok, now) ==
  /\ req \in inflight /\ req.phase = "post"
  /\ IF ok
     THEN LET newEntry == RemoteCreate(remoteSeq, req.draft, ServerTime(clock))
          IN /\ now = clock
             /\ clock' = ServerTime(clock)
             /\ remote' = remote \cup {newEntry}
             /\ remoteSeq' = remoteSeq + 1
             /\ entries' = <<newEntry>> \o entries
             /\ Continue(req, [req EXCEPT !.phase = "summary", !.entry = newEntry,
                                          !.seen = St])
             /\ UNCHANGED <<localStorage, db>>
     ELSE /\ clock' = now
          /\ SetStore(cacheEntry(CacheBase(req), req.draft, now))
          /\ Continue(req, req)
          /\ UNCHANGED <<remote, remoteSeq, entries>>
  /\ UNCHANGED <<authVars, pair, isWeb, summary, isLoading, selectedDate, last, nOps>>

\* the fetchSummary() of the task returns: the summary is set, and addEntry
\* caches its new entry before it returns
SummaryArrives(req, sok) ==
  /\ req \in inflight /\ req.phase = "summary"
  /\ summary' = fetchSummary(entries, remote, selectedDate, sok)
  /\ IF req.op = "addEntry"
     THEN SetStore(cacheEntryLocally(CacheBase(req), req.entry))
     ELSE UNCHANGED <<localStorage, db>>
  /\ Continue(req, req)
  /\ UNCHANGED <<authVars, pair, isWeb, entries, isLoading, selectedDate, remote, remoteSeq, clock,
                 last, nOps>>

\* syncOfflineEntries() up to the await of its first request: the create
\* request of the first selected entry, or the list request of fetchEntries()
\* when nothing is selected
SyncCall ==
  /\ CanCall
  /\ LET list == unsynced(St)
     IN /\ inflight' = inflight \cup
             {Task("syncOfflineEntries", nOps, IF list = <<>> THEN "get" ELSE "loop",
                   selectedDate, list, 1, NoDraft, NoEntry, St)}
        /\ isLoading' = IF list = <<>> THEN TRUE ELSE isLoading
        /\ last' = [Op("syncOfflineEntries") EXCEPT !.sel = list]
  /\ nOps' = nOps + 1
  /\ UNCHANGED <<authVars, pair, isWeb, localStorage, db, entries, summary, selectedDate, remote,
                 remoteSeq, clock>>

\* Replace temp entry with real one from server (web), mark as synced (mobile)
Replace(st, entry, data) ==
  IF isWeb
  THEN LET index == FindIndex(st.ls, entry.id)
       IN [st EXCEPT !.ls = IF index > 0 THEN [@ EXCEPT ![index] = data] ELSE @]
  ELSE [st EXCEPT !.db.rows = {IF r.id = entry.id THEN [r EXCEPT !.synced = 1] ELSE r : r \in @}]

\* the response of the create request for list[i] in the loop of
\* syncOfflineEntries; after the last one fetchEntries() is called
SyncCreateArrives(req, ok) ==
  /\ req \in inflight /\ req.phase = "loop"
  /\ LET entry == req.list[req.i]
         data == RemoteCreate(remoteSeq, PostBody(entry), ServerTime(clock))
     IN IF ok
        THEN /\ clock' = ServerTime(clock)
             /\ remote' = remote \cup {data}
             /\ remoteSeq' = remoteSeq + 1
             /\ SetStore(Replace(CacheBase(req), entry, data))
        ELSE UNCHANGED <<clock, remote, remoteSeq, localStorage, db>>
  /\ Continue(req, IF req.i = Len(req.list)
                   THEN [req EXCEPT !.phase = "get", !.i = @ + 1, !.seen = St']
                   ELSE [req EXCEPT !.i = @ + 1, !.seen = St'])
  /\ isLoading' = IF req.i = Len(req.list) THEN TRUE ELSE isLoading
  /\ UNCHANGED <<authVars, pair, isWeb, entries, summary, selectedDate, last, nOps>>

NextTasks ==
  \/ FetchEntriesCall
  \/ \E draft \in TaskDrafts : AddEntryCall(draft)
  \/ SyncCall
  \/ \E req \in inflight, ok \in BOOLEAN : EntriesArrive(req, ok)
  \/ \E req \in inflight : CacheNext(req)
  \/ \E req \in inflight, ok \in BOOLEAN, now \in Readings : CreateArrives(req, ok, now)
  \/ \E req \in inflight, sok \in BOOLEAN : SummaryArrives(req, sok)
  \/ \E req \in inflight, ok \in BOOLEAN : SyncCreateArrives(req, ok)

\* The store after a first addEntry that could not reach the remote: its
\* draft is in the cache as a pending row. The calls in flight together
\* start from there.
InitTasks ==
  /\ isWeb \in BOOLEAN
  /\ \E st \in {cacheEntry(Store(<<>>, [rows |-> {}, seq |-> 0]),
                            Draft("apple", "2024-05-01"), 1)} :
       localStorage = st.ls /\ db = st.db
  /\ entries = <<>>
  /\ summary = NoSummary
  /\ isLoading = FALSE
  /\ selectedDate = "2024-05-01"
  /\ remote = {}
  /\ remoteSeq = 0
  /\ clock = 1
  /\ last = [NoOp EXCEPT !.op = "addEntry", !.draft = Draft("apple", "2024-05-01"),
                         !.posts = <<Draft("apple", "2024-05-01")>>, !.ok = FALSE,
                         !.raised = TRUE]
  /\ nOps = 1
  /\ inflight = {}
  /\ pair = NoPair
  /\ InitAuthStore

SpecTasks == InitTasks /\ [][NextTasks]_vars

\* the identifiers of the rows in the cache
CachedIds(st) == {e.id : e \in AllRows(st)}

\* C26: no torn cache updates. With fetchEntries, addEntry and
\* syncOfflineEntries interleaved at their awaits, no step loses a row another
\* call wrote: every row of the cache is still there after the step, under
\* the same identifier; the one exception is the row that the web loop of
\* syncOfflineEntries replaces by the created entry.
C26_NoTornUpdate ==
  [][\A id \in CachedIds(St) \ CachedIds(St') :
       /\ isWeb
       /\ \E req \in inflight : /\ req.phase = "loop"
                                /\ req.list[req.i].id = id
                                /\ req \notin inflight']_vars

\* a task in the middle of its writes while another call has written the cache
C26_Witness ==
  \E req \in inflight : req.phase = "cache" /\ req.seen # St

\* the entries the passes of syncOfflineEntries have submitted so far
Submitted(req) ==
  IF req.op = "syncOfflineEntries" THEN {req.list[k].id : k \in 1..(req.i - 1)} ELSE {}

\* C29: overlapping passes of syncOfflineEntries do not duplicate. No selected
\* entry has been submitted to the create request by two passes in flight.
C29_SubmittedOnce ==
  \A a, b \in inflight : a # b => Submitted(a) \cap Submitted(b) = {}

----------------------------------------------------------------------------
\* the summary was computed by the fallback of fetchSummary, which is the one
\* that writes the hard-coded goals
IsFallbackSummary(s) == s # NoSummary /\ s.calorie_goal = calorie_goal

\* the totals of a summary
TotalsOf(s) == [calories |-> s.calories, protein |-> s.protein, carbs |-> s.carbs, fats |-> s.fats]

\* C31: summary/entries consistency after a date change. When the two
\* requests started by setSelectedDate(D) have completed and the summary
\* request failed, the stored summary has date D and its totals are the sums
\* over the entries the view now holds for D.
C31_SummaryMatchesView ==
  (inflight = {} /\ last.op \in {"fetchEntries", "fetchSummary"} /\ IsFallbackSummary(summary)) =>
    /\ summary.date = selectedDate
    /\ TotalsOf(summary) =
         Totals(SelectSeqBy(entries, {e \in Range(entries) : e.entry_date = selectedDate}))

\* C32: loading flag. isLoading is true in exactly the states where at least
\* one fetchEntries call is in flight, overlapping calls included.
C32_LoadingFlag ==
  isLoading = (\E req \in inflight : req.kind = "entries")

\* the entries a pass of syncOfflineEntries has just confirmed: those the
\* remote holds after the pass and did not hold before
Confirmed == remote' \ remote

\* C33: sync-then-refresh ordering. The refresh of syncOfflineEntries comes
\* after the create attempt of every selected entry: when the pass ends and
\* its list request succeeded, the view is the remote list of the selected
\* date as it is after the pass, with every entry the pass confirmed for that
\* date in it.
C33_RefreshAfterSync ==
  [][(Step("syncOfflineEntries") /\ last'.refreshed) =>
       /\ entries' = RemoteList(remote', selectedDate)
       /\ \A e \in Confirmed : e.entry_date = selectedDate => e \in Range(entries')]_vars

\* a pass has confirmed an entry of the selected date and refreshed the view
C33_Witness ==
  /\ last.op = "syncOfflineEntries" /\ last.refreshed
  /\ last.sel # <<>> /\ last.fail = {}
  /\ \E i \in 1..Len(last.posts) : last.posts[i].entry_date = selectedDate
  /\ entries # <<>>

----------------------------------------------------------------------------
\* The session. The operations of the auth store are whole handlers; the
\* outcome of each request is "ok", "401" or "error" (no response). The
\* screens decide which operation can be called: checkAuth when App mounts,
\* login and register from the login screen, logout and the requests of the
\* food store from the main tabs.

Statuses == {"ok", "401", "error"}

\* storage[method] is a function: the web storage object defines getItem,
\* setItem and deleteItem; on mobile getStorage() returns the module itself
Exports(method) == isWeb \/ method \in secureStore

\* the response interceptor: a 401 deletes the stored token; where deleteItem
\* is not a function the handler throws and the token stays
interceptor(status, token) ==
  IF status = "401" /\ Exports("deleteItem") THEN NoToken ELSE token

\* the request interceptor reads the token with getItem; where that is not a
\* function it rejects and the request is not sent
Answered(status) == Exports("getItem") \/ status = "error"

\* what a handler leaves behind: the auth state, the stored token, whether it
\* raised and the requests it made
Outcome(a, token, raised, requests) ==
  [auth |-> a, token |-> token, raised |-> raised, requests |-> requests]

\* login(email, password)
login(u, status) ==
  IF status = "ok"
  THEN IF Exports("setItem")
       THEN Outcome([user |-> u, isAuthenticated |-> TRUE, isLoading |-> FALSE], TokenOf(u),
                    FALSE, <<"/auth/login">>)
       ELSE Outcome(auth, auth_token, TRUE, <<"/auth/login">>)
  ELSE Outcome(auth, interceptor(status, auth_token), TRUE, <<"/auth/login">>)

\* register(email, password, name): on success login with the same credentials
register(u, status, lstatus) ==
  IF status = "ok"
  THEN [login(u, lstatus) EXCEPT !.requests = <<"/auth/register">> \o @]
  ELSE Outcome(auth, interceptor(status, auth_token), TRUE, <<"/auth/register">>)

\* logout()
logout ==
  IF Exports("deleteItem")
  THEN Outcome([auth EXCEPT !.user = NoUser, !.isAuthenticated = FALSE], NoToken, FALSE, <<>>)
  ELSE Outcome(auth, auth_token, TRUE, <<>>)

\* the catch branch of checkAuth, entered with `token` stored
checkAuthCatch(token, requests) ==
  IF Exports("deleteItem")
  THEN Outcome([user |-> NoUser, isAuthenticated |-> FALSE, isLoading |-> FALSE], NoToken,
               FALSE, requests)
  ELSE Outcome(auth, token, TRUE, requests)

\* checkAuth()
checkAuth(status) ==
  IF ~Exports("getItem") THEN checkAuthCatch(auth_token, <<>>)
  ELSE IF auth_token = NoToken
  THEN Outcome([auth EXCEPT !.isLoading = FALSE, !.isAuthenticated = FALSE], auth_token,
               FALSE, <<>>)
  ELSE IF status = "ok"
  THEN Outcome([user |-> auth_token.sub, isAuthenticated |-> TRUE, isLoading |-> FALSE],
               auth_token, FALSE, <<"/auth/me">>)
  ELSE checkAuthCatch(interceptor(status, auth_token), <<"/auth/me">>)

\* the variables of the food store, which the session leaves alone
foodVars == <<isWeb, localStorage, db, entries, summary, isLoading, selectedDate, remote,
              remoteSeq, clock, inflight, pair>>

\* the operation `name` of the auth store ran, with the outcome `out`
AuthCall(name, status, out) ==
  /\ nOps < MaxOps
  /\ auth' = out.auth
  /\ auth_token' = out.token
  /\ last' = [Op(name) EXCEPT !.ok = (status = "ok"), !.raised = out.raised,
                              !.requests = out.requests]
  /\ nOps' = nOps + 1
  /\ UNCHANGED <<foodVars, secureStore>>

\* App mounts: useEffect calls checkAuth() while the loading screen is shown
CheckAuth(status) ==
  /\ auth.isLoading
  /\ Answered(status)
  /\ AuthCall("checkAuth", status, checkAuth(status))

\* the login screen is shown
LoginScreen == ~auth.isLoading /\ ~auth.isAuthenticated

Login(u, status) ==
  /\ LoginScreen
  /\ Answered(status)
  /\ AuthCall("login", status, login(u, status))

Register(u, status, lstatus) ==
  /\ LoginScreen
  /\ Answered(status) /\ Answered(lstatus)
  /\ AuthCall("register", status, register(u, status, lstatus))

\* the main tabs are shown
MainTabs == ~auth.isLoading /\ auth.isAuthenticated

Logout ==
  /\ MainTabs
  /\ AuthCall("logout", "ok", logout)

\* a request of the food store is answered 401 (the token has expired or was
\* revoked): the response interceptor runs
Unauthorized ==
  /\ MainTabs
  /\ auth_token # NoToken
  /\ auth_token' = interceptor("401", auth_token)
  /\ UNCHANGED <<foodVars, auth, secureStore, last, nOps>>

\* the app is closed and opened again: the auth store is created anew, the
\* storage keeps the token
Restart ==
  /\ nOps < MaxOps
  /\ ~auth.isLoading
  /\ auth' = InitAuth
  /\ UNCHANGED <<foodVars, auth_token, secureStore, last, nOps>>

NextSession ==
  \/ \E status \in Statuses : CheckAuth(status)
  \/ \E u \in Users, status \in Statuses : Login(u, status)
  \/ \E u \in Users, status, lstatus \in Statuses : Register(u, status, lstatus)
  \/ Logout
  \/ Unauthorized
  \/ Restart

\* the app is opened on either platform, with either build of the storage
\* module, with or without a token left by an earlier run
InitSession ==
  /\ InitFoodStore
  /\ auth = InitAuth
  /\ auth_token \in {NoToken, TokenOf("ann")}
  /\ secureStore \in {SecureStoreAsync, SecureStoreAsync \cup SecureStoreSync}

SpecSession == InitSession /\ [][NextSession]_vars

\* C34: session invariant. In every reachable state of the auth store and
\* the API client, isAuthenticated implies that a token is stored; a 401
\* response, which makes the interceptor delete the token, does not leave
\* isAuthenticated true.
C34_AuthenticatedHasToken ==
  auth.isAuthenticated => auth_token # NoToken

\* C35: checkAuth always finishes with isLoading false and never raises.
\* With no stored token it sends no request and ends with isAuthenticated
\* false; with a stored token it ends with isAuthenticated true and the user
\* set when /auth/me succeeds, and with the token deleted, user null and
\* isAuthenticated false when /auth/me fails.
C35_CheckAuthSettles ==
  [][Step("checkAuth") =>
       /\ ~auth'.isLoading
       /\ ~last'.raised
       /\ auth_token = NoToken => (last'.requests = <<>> /\ ~auth'.isAuthenticated)
       /\ (auth_token # NoToken /\ last'.ok) =>
            (auth'.isAuthenticated /\ auth'.user = auth_token.sub)
       /\ (auth_token # NoToken /\ ~last'.ok) =>
            (auth_token' = NoToken /\ auth'.user = NoUser /\ ~auth'.isAuthenticated)]_vars

====
